---- MODULE Spec2Model ----
(***************************************************************************)
(* Batch notification and fulfilment engine of the blood-request backend.  *)
(*                                                                         *)
(* The store is the BloodRequest collection.  Every database operation of  *)
(* a handler is one atomic step; what a handler holds between two awaits   *)
(* (its copy of the document, the time it read from the clock) is local    *)
(* state of that handler, so that handlers interleave the way the event    *)
(* loop and the database let them.                                         *)
(*                                                                         *)
(* Two revisions of the request controller are in the repository:          *)
(*   "rev1"  controllers/bloodRequestController.js  (in-progress status is *)
(*           the schema default 'pending'; no confirmDonation, the read    *)
(*           returns the document as it is)                                *)
(*   "rev2"  unnamed/part_000  (in-progress status is 'active'; lifecycle  *)
(*           evaluation on read; confirmDonation)                          *)
(* The scheduler (checkPendingBatches) exists in one revision only and     *)
(* runs next to either controller.                                         *)
(*                                                                         *)
(* Document#save of the ODM writes the modified paths only: a $set per     *)
(* changed scalar, a $push for Array#push.  Replacing an array marks the   *)
(* document for versioning: the update then carries the __v the copy was   *)
(* loaded with in its filter and increments __v; when no document matches, *)
(* save rejects with a VersionError.                                       *)
(***************************************************************************)
EXTENDS Integers, Sequences, FiniteSets, Bags, TLC

(* ------------------------------ bounds --------------------------------- *)
MaxRequests == 1
MaxTime == 4
MaxQuantity == 2
NumConfirms == 2
NumReads == 1
NumScheds == 2
MaxCreateTime == 0

(* ------------------------- program constants --------------------------- *)
BatchSizeAtCreate == 1
ResponseWindowAtCreate == 2
DefaultBatchSize == 1
DefaultWindow == 2
ExclusionMonths == 3
SchemaBatchSize == 3

NoDate == 0 - 1

Revisions == {"rev1", "rev2"}
RequestIds == 1..MaxRequests
\* an id no request is ever stored under
UnknownId == MaxRequests + 1
Calls == 1..NumConfirms
Reads == 1..NumReads
Scheds == 1..NumScheds

(* --------------------------- calendar ---------------------------------- *)
(* Dates of the donor directory are day numbers; a "now" of the calendar   *)
(* is a month index and a day of that month.  Date#setMonth keeps the day  *)
(* of the month and lets it overflow into the following month.             *)
MonthLen(m) ==
    LET k == m % 12
    IN  IF k = 1 THEN 28
        ELSE IF k \in {3, 5, 8, 10} THEN 30
        ELSE 31

RECURSIVE MonthStart(_)
MonthStart(m) == IF m <= 0 THEN 0 ELSE MonthStart(m - 1) + MonthLen(m - 1)

\* d = new Date(date); d.setMonth(d.getMonth() - k)
SetMonthBack(date, k) == MonthStart(date.m - k) + date.d - 1

(* ------------------------ blood group strings -------------------------- *)
Whitespace == {" ", "\t"}

ToUpperChar(c) ==
    CASE c = "a" -> "A"
      [] c = "b" -> "B"
      [] c = "o" -> "O"
      [] OTHER -> c

\* s.replace(/\s+/g, '').toUpperCase()
RECURSIVE Normalize(_)
Normalize(s) ==
    IF s = << >> THEN << >>
    ELSE IF Head(s) \in Whitespace THEN Normalize(Tail(s))
    ELSE <<ToUpperChar(Head(s))>> \o Normalize(Tail(s))

(* ------------------------ eligibility filter --------------------------- *)
\* donor.bloodGroup || donor["Blood Group"]
DonorBloodGroup(donor) ==
    IF donor.bloodGroup # << >> THEN donor.bloodGroup ELSE donor.altBloodGroup

TooRecent_Inclusive(donor, today) ==
    /\ donor.lastDonationDate # NoDate
    /\ donor.lastDonationDate >= SetMonthBack(today, ExclusionMonths)

\* if (donor.lastDonationDate) { ... if (lastDonation > threeMonthsAgo) return false; }
TooRecent(donor, today) ==
    /\ donor.lastDonationDate # NoDate
    /\ donor.lastDonationDate > SetMonthBack(today, ExclusionMonths)

GroupMatches_Raw(donor, bloodGroup) ==
    DonorBloodGroup(donor) = bloodGroup

\* normalizedDonor === normalizedRequested
GroupMatches(donor, bloodGroup) ==
    LET g == DonorBloodGroup(donor)
        normalizedDonor == IF g # << >> THEN Normalize(g) ELSE << >>
    IN  normalizedDonor = Normalize(bloodGroup)

\* the callback of allDonors.filter(...)
IsMatchingDonor(donor, bloodGroup, today) ==
    IF TooRecent(donor, today) THEN FALSE ELSE GroupMatches(donor, bloodGroup)

\* allDonors.filter(...): the matching donors in directory order
RECURSIVE FilterDonors(_, _, _)
FilterDonors(allDonors, bloodGroup, today) ==
    IF allDonors = << >> THEN << >>
    ELSE LET rest == FilterDonors(Tail(allDonors), bloodGroup, today)
         IN  IF IsMatchingDonor(Head(allDonors), bloodGroup, today)
             THEN <<Head(allDonors)>> \o rest
             ELSE rest

\* (a.name || '').localeCompare(b.name || '') as a rank of the names
RECURSIVE InsertByName(_, _)
InsertByName_BeforeEqual(sorted, donor) ==
    IF sorted = << >> THEN <<donor>>
    ELSE IF donor.name <= Head(sorted).name
         THEN <<donor>> \o sorted
         ELSE <<Head(sorted)>> \o InsertByName(Tail(sorted), donor)

InsertByName(sorted, donor) ==
    IF sorted = << >> THEN <<donor>>
    ELSE IF donor.name < Head(sorted).name
         THEN <<donor>> \o sorted
         ELSE <<Head(sorted)>> \o InsertByName(Tail(sorted), donor)

\* matchingDonors.sort(...): a stable sort
RECURSIVE SortByName(_)
SortByName(donors) ==
    IF donors = << >> THEN << >>
    ELSE InsertByName(SortByName(SubSeq(donors, 1, Len(donors) - 1)),
                      donors[Len(donors)])

\* matchingDonors.map(d => d._id)
DonorIdsOf(donors) == [i \in 1..Len(donors) |-> donors[i].id]

BuildQueue(allDonors, bloodGroup, today) ==
    DonorIdsOf(SortByName(FilterDonors(allDonors, bloodGroup, today)))

(* --------------------------- donor directory --------------------------- *)
Today == [m |-> 18, d |-> 31]

MonthsAgo(k) == SetMonthBack(Today, k)

Directory ==
    << [id |-> 1, name |-> 2, bloodGroup |-> <<"O", "+">>, altBloodGroup |-> << >>,
        lastDonationDate |-> NoDate, phone |-> TRUE],
       [id |-> 2, name |-> 1, bloodGroup |-> <<"o", " ", "+">>, altBloodGroup |-> << >>,
        lastDonationDate |-> MonthsAgo(4), phone |-> TRUE],
       [id |-> 3, name |-> 1, bloodGroup |-> <<"O", "+">>, altBloodGroup |-> << >>,
        lastDonationDate |-> MonthsAgo(1), phone |-> TRUE],
       [id |-> 4, name |-> 3, bloodGroup |-> <<"A", "+">>, altBloodGroup |-> << >>,
        lastDonationDate |-> NoDate, phone |-> TRUE],
       [id |-> 5, name |-> 2, bloodGroup |-> << >>, altBloodGroup |-> <<"O", "+">>,
        lastDonationDate |-> MonthsAgo(3), phone |-> FALSE] >>

\* enum: ['A+', 'A-', 'B+', 'B-', 'AB+', 'AB-', 'O+', 'O-']
BloodGroupEnum ==
    { <<"A", "+">>, <<"A", "-">>, <<"B", "+">>, <<"B", "-">>,
      <<"A", "B", "+">>, <<"A", "B", "-">>, <<"O", "+">>, <<"O", "-">> }

\* the blood groups a hospital asks for; the last one fails the schema's enum
RequestedGroups == { <<"O", "+">>, <<"A", "+">>, <<"B", "-">>, <<"o", "+">> }
RequiredBys == {2}

(* ------------------------------ state ---------------------------------- *)
VARIABLES
    readyState,    \* mongoose.connection.readyState: 1 when connected, 0 when not
    revision,      \* which controller revision is deployed
    donors,        \* the Donor collection, in the order Donor.find({}) returns it
    today,         \* the calendar date of the clock
    now,           \* the clock, in minutes
    requests,      \* the BloodRequest collection: requests[id] is the stored document
    queuedAtCreate,\* per request, the number of donor ids createBloodRequest queued
    confirm,       \* the confirmDonation calls
    read,          \* the getBloodRequestById calls
    batch,         \* the sendNextBatch runs
    sched,         \* the checkPendingBatches cycles
    sms,           \* the bag of <<request, donor>> pairs handed to sendSMS
    tokens,        \* the bag of <<request, donor>> pairs of the ResponseToken collection
    message,       \* the SMS text sendNextBatch builds for one donor
    clients,       \* the array of live-update subscribers of notificationStream.js
    stream         \* the live-update connections and the clock addClient reads

vars == <<readyState, revision, donors, today, now, requests, queuedAtCreate, confirm, read, batch, sched, sms, tokens,
          message, clients, stream>>

\* No message is being built; no subscriber has connected.
NoMessage == [pc |-> "none", urgency |-> "low", bloodGroup |-> <<"O", "+">>, quantity |-> 1,
              smsTemplate |-> << >>, body |-> << >>]
IdleStream == [ms |-> 0, ids |-> << >>, open |-> {}, written |-> {}]

\* The status createBloodRequest stores: part_000 sets 'active', the earlier
\* revision leaves the schema default 'pending'.
InProgressStatus(rev) == IF rev = "rev2" THEN "active" ELSE "pending"

Statuses == {"pending", "active", "fulfilled", "expired", "cancelled"}
Terminal == {"fulfilled", "expired", "cancelled"}

Exists(id) == id \in 1..Len(requests)

\* Donor.find({_id: id})
DonorById(id) == CHOOSE donor \in {donors[i] : i \in 1..Len(donors)} : donor.id = id

\* The ids a caller may pass: the id of a stored request (the response link of a
\* message carries it), or an id that is not in the collection.
CallerIds == (1..Len(requests)) \cup {UnknownId}

\* sendNextBatch runs: one detached run per created request, one per cycle
Runners == 1..(MaxRequests + NumScheds)
InitRunner(r) == r
SchedRunner(s) == MaxRequests + s

\* seen: the stored status at the instant of the call's conditional update
IdleConfirm == [pc |-> "idle", req |-> 0, t |-> 0, units |-> 0, quantity |-> 0,
                res |-> "none", seen |-> "none"]
IdleRead == [pc |-> "idle", req |-> 0, status |-> "none", isFull |-> FALSE,
             isExpired |-> FALSE, res |-> "none"]
\* todo: the donors of the batch whose processing has not ended; tokened: those
\* of them whose response token is created; outcome: how the others ended
IdleBatch == [pc |-> "idle", req |-> 0, queue |-> << >>, ids |-> << >>, v |-> 0,
              inProgress |-> FALSE, units |-> 0, t |-> 0,
              todo |-> {}, tokened |-> {}, outcome |-> {}]
\* res: "notReady" when the last cycle returned at the readyState test, "error"
\* when its catch logged an error
IdleSched == [pc |-> "idle", pending |-> << >>, t |-> 0, res |-> "none"]

\* a database operation reaches the store only while the connection is open
Connected == readyState = 1

Init ==
    /\ readyState = 1
    /\ revision \in Revisions
    /\ donors = Directory
    /\ today = Today
    /\ now = 0
    /\ requests = << >>
    /\ queuedAtCreate = << >>
    /\ confirm = [c \in Calls |-> IdleConfirm]
    /\ read = [g \in Reads |-> IdleRead]
    /\ batch = [x \in Runners |-> IdleBatch]
    /\ sched = [s \in Scheds |-> IdleSched]
    /\ sms = EmptyBag
    /\ tokens = EmptyBag
    /\ message = NoMessage
    /\ clients = << >>
    /\ stream = IdleStream

(* ------------------------------ clock ---------------------------------- *)
Tick ==
    /\ now < MaxTime
    /\ now' = now + 1
    /\ UNCHANGED <<message, clients, stream, readyState, revision, donors, today, requests, queuedAtCreate, confirm, read, batch, sched, sms, tokens>>

(* ------------------------ createBloodRequest --------------------------- *)
\* new BloodRequest({...}) with remainingDonorsQueue = donorIds
NewRequest(rev, bloodGroup, quantity, requiredBy, donorIds) ==
    [status |-> InProgressStatus(rev),
     bloodGroup |-> bloodGroup,
     quantity |-> quantity,
     confirmedUnits |-> 0,
     requiredBy |-> requiredBy,
     batchSize |-> BatchSizeAtCreate,
     responseWindow |-> ResponseWindowAtCreate,
     notifiedDonors |-> << >>,
     remainingDonorsQueue |-> donorIds,
     batchSentAt |-> NoDate,
     batchInProgress |-> FALSE,
     v |-> 0]

\* The validation bloodRequest.save() runs on the new document.
ValidRequest(bloodGroup, quantity) ==
    /\ bloodGroup \in BloodGroupEnum
    /\ quantity >= 1

\* The request is saved with its queue, then sendNextBatch is started detached.
\* A document that fails validation is not stored and the answer is 500.
createBloodRequest(bloodGroup, quantity, requiredBy) ==
    /\ Connected
    /\ Len(requests) < MaxRequests
    /\ now <= MaxCreateTime
    /\ LET id == Len(requests) + 1
           donorIds == BuildQueue(donors, bloodGroup, today)
       IN  IF ValidRequest(bloodGroup, quantity) THEN
               /\ requests' = Append(requests,
                      NewRequest(revision, bloodGroup, quantity, requiredBy, donorIds))
               /\ queuedAtCreate' = Append(queuedAtCreate, Len(donorIds))
               /\ batch' = [batch EXCEPT ![InitRunner(id)] =
                               [IdleBatch EXCEPT !.pc = "load", !.req = id]]
           ELSE UNCHANGED <<requests, queuedAtCreate, batch>>
    /\ UNCHANGED <<message, clients, stream, readyState, revision, donors, today, now, confirm, read, sched, sms, tokens>>

(* --------------------------- sendNextBatch ----------------------------- *)
ClosedForBatch_Never(rev, status) == FALSE

\* if (request.status === 'fulfilled' || request.status === 'cancelled' [|| ... 'expired']) return
ClosedForBatch(rev, status) ==
    IF rev = "rev2" THEN status \in {"fulfilled", "cancelled", "expired"}
    ELSE status \in {"fulfilled", "cancelled"}

\* request.batchSize || 1
EffectiveBatchSize(doc) == IF doc.batchSize # 0 THEN doc.batchSize ELSE DefaultBatchSize

Min(a, b) == IF a < b THEN a ELSE b

\* queue.slice(0, n)
Take(q, n) == SubSeq(q, 1, Min(n, Len(q)))
\* queue.slice(n)
Drop(q, n) == SubSeq(q, Min(n, Len(q)) + 1, Len(q))

QueueIsEmpty_Never(doc) == FALSE

\* if (request.remainingDonorsQueue.length === 0) return
QueueIsEmpty(doc) == Len(doc.remainingDonorsQueue) = 0

\* findById and the guards; the copy is changed in memory and save is issued
sendNextBatch_load(x) ==
    /\ batch[x].pc = "load"
    /\ Connected
    /\ LET id == batch[x].req IN
       IF ~Exists(id) THEN
           batch' = [batch EXCEPT ![x] = [IdleBatch EXCEPT !.pc = "done"]]
       ELSE LET doc == requests[id] IN
           IF ClosedForBatch(revision, doc.status) \/ QueueIsEmpty(doc) THEN
               batch' = [batch EXCEPT ![x] = [IdleBatch EXCEPT !.pc = "done"]]
           ELSE
               batch' = [batch EXCEPT ![x] =
                   [pc |-> "save", req |-> id,
                    queue |-> Drop(doc.remainingDonorsQueue, EffectiveBatchSize(doc)),
                    ids |-> Take(doc.remainingDonorsQueue, EffectiveBatchSize(doc)),
                    v |-> doc.v, inProgress |-> doc.batchInProgress,
                    units |-> doc.confirmedUnits, t |-> now,
                    todo |-> {}, tokened |-> {}, outcome |-> {}]]
    /\ UNCHANGED <<message, clients, stream, readyState, revision, donors, today, now, requests, queuedAtCreate, confirm, read, sched, sms, tokens>>

SaveMatches_Unversioned(doc, copy) == TRUE

\* The filter of the update save issues: the array was replaced, so __v is in it.
SaveMatches(doc, copy) == doc.v = copy.v

BatchUpdate_NoPush(doc, copy) ==
    [doc EXCEPT !.remainingDonorsQueue = copy.queue,
                !.batchSentAt = copy.t,
                !.batchInProgress = IF copy.inProgress THEN doc.batchInProgress ELSE TRUE,
                !.v = doc.v + 1]

BatchUpdate_WholeDocument(doc, copy) ==
    [doc EXCEPT !.remainingDonorsQueue = copy.queue,
                !.notifiedDonors = doc.notifiedDonors \o copy.ids,
                !.batchSentAt = copy.t,
                !.batchInProgress = IF copy.inProgress THEN doc.batchInProgress ELSE TRUE,
                !.confirmedUnits = copy.units,
                !.v = doc.v + 1]

BatchUpdate_NoSentAt(doc, copy) ==
    [doc EXCEPT !.remainingDonorsQueue = copy.queue,
                !.notifiedDonors = doc.notifiedDonors \o copy.ids,
                !.batchInProgress = IF copy.inProgress THEN doc.batchInProgress ELSE TRUE,
                !.v = doc.v + 1]

BatchUpdate_KeepQueue(doc, copy) ==
    [doc EXCEPT !.notifiedDonors = doc.notifiedDonors \o copy.ids,
                !.batchSentAt = copy.t,
                !.batchInProgress = IF copy.inProgress THEN doc.batchInProgress ELSE TRUE,
                !.v = doc.v + 1]

\* The update of request.save(): $set remainingDonorsQueue, $push notifiedDonors,
\* $set batchSentAt, $set batchInProgress when the copy had it false, $inc __v.
BatchUpdate(doc, copy) ==
    [doc EXCEPT !.remainingDonorsQueue = copy.queue,
                !.notifiedDonors = doc.notifiedDonors \o copy.ids,
                !.batchSentAt = copy.t,
                !.batchInProgress = IF copy.inProgress THEN doc.batchInProgress ELSE TRUE,
                !.v = doc.v + 1]

\* Donor.find({_id: {$in: nextBatchIds}})
FoundDonors(ids) == {ids[i] : i \in 1..Len(ids)}

sendNextBatch_save(x) ==
    /\ batch[x].pc = "save"
    /\ Connected
    /\ LET id == batch[x].req
           doc == requests[id] IN
       IF SaveMatches(doc, batch[x]) THEN
           /\ requests' = [requests EXCEPT ![id] = BatchUpdate(doc, batch[x])]
           /\ batch' = [batch EXCEPT ![x] = [IdleBatch EXCEPT !.pc = "send", !.req = id,
                                                            !.ids = batch[x].ids,
                                                            !.todo = FoundDonors(batch[x].ids)]]
       ELSE \* VersionError, caught by the outer catch
           /\ batch' = [batch EXCEPT ![x] = [IdleBatch EXCEPT !.pc = "done"]]
           /\ UNCHANGED requests
    /\ UNCHANGED <<message, clients, stream, readyState, revision, donors, today, now, queuedAtCreate, confirm, read, sched, sms, tokens>>

\* Donor.find({_id: {$in: nextBatchIds}}): the donors of the batch that have a
\* phone number; the others are passed over (if (!donorPhone) return).
Reachable(ids) == {ids[i] : i \in {j \in 1..Len(ids) : DonorById(ids[j]).phone}}

\* The per-donor work: ResponseToken.create, then the message is handed to
\* sendSMS; Promise.allSettled waits for all of them.
sendNextBatch_send(x) ==
    /\ batch[x].pc = "send"
    /\ batch[x].todo = FoundDonors(batch[x].ids)
    /\ Connected
    /\ LET handed == SetToBag({<<batch[x].req, d>> : d \in Reachable(batch[x].ids)}) IN
           /\ tokens' = tokens (+) handed
           /\ sms' = sms (+) handed
    /\ batch' = [batch EXCEPT ![x] = [IdleBatch EXCEPT !.pc = "done"]]
    /\ UNCHANGED <<message, clients, stream, readyState, revision, donors, today, now, requests, queuedAtCreate, confirm, read, sched>>

(* ------------------------- checkPendingBatches ------------------------- *)
IsPendingBatch_AnyFlag(doc) ==
    /\ doc.status = "pending"
    /\ doc.confirmedUnits < doc.quantity

\* BloodRequest.find({status: 'pending', batchInProgress: true,
\*                    $expr: {$lt: ['$confirmedUnits', '$quantity']}})
IsPendingBatch(doc) ==
    /\ doc.status = "pending"
    /\ doc.batchInProgress
    /\ doc.confirmedUnits < doc.quantity

RECURSIVE FindPending(_, _)
FindPending(docs, id) ==
    IF id > Len(docs) THEN << >>
    ELSE IF IsPendingBatch(docs[id])
         THEN <<[id |-> id, batchSentAt |-> docs[id].batchSentAt,
                 responseWindow |-> docs[id].responseWindow]>> \o FindPending(docs, id + 1)
         ELSE FindPending(docs, id + 1)

\* A cycle starts on a timer: the interval, or the catch-up run after startup.
\* A cycle that is still awaiting does not keep the next one from starting.
checkPendingBatches_find(s) ==
    /\ sched[s].pc = "idle"
    /\ Connected
    /\ \A s2 \in Scheds : s2 < s => sched[s2].pc # "idle"
    /\ sched' = [sched EXCEPT ![s] =
           IF FindPending(requests, 1) = << >> THEN IdleSched
           ELSE [pc |-> "loop", pending |-> FindPending(requests, 1), t |-> now,
                 res |-> "none"]]
    /\ UNCHANGED <<message, clients, stream, readyState, revision, donors, today, now, requests, queuedAtCreate, confirm, read, batch, sms, tokens>>

\* request.responseWindow || 2
WindowMinutes(item) == IF item.responseWindow # 0 THEN item.responseWindow ELSE DefaultWindow

\* if (!request.batchSentAt) continue; ... if (elapsedMinutes >= windowMinutes)
WindowClosed(item, t) ==
    /\ item.batchSentAt # NoDate
    /\ t - item.batchSentAt >= WindowMinutes(item)

\* One iteration of the for loop: either the request is passed over, or
\* batchInProgress = false is saved and sendNextBatch is called and awaited.
checkPendingBatches_step(s) ==
    /\ sched[s].pc = "loop"
    /\ batch[SchedRunner(s)].pc \in {"idle", "done"}
    /\ IF sched[s].pending = << >> THEN
           /\ sched' = [sched EXCEPT ![s] = IdleSched]
           /\ batch' = [batch EXCEPT ![SchedRunner(s)] = IdleBatch]
           /\ UNCHANGED requests
       ELSE LET item == Head(sched[s].pending) IN
           /\ sched' = [sched EXCEPT ![s].pending = Tail(sched[s].pending)]
           /\ IF WindowClosed(item, sched[s].t) THEN
                  /\ Connected
                  /\ requests' = [requests EXCEPT ![item.id].batchInProgress = FALSE]
                  /\ batch' = [batch EXCEPT ![SchedRunner(s)] =
                                  [IdleBatch EXCEPT !.pc = "load", !.req = item.id]]
              ELSE
                  /\ batch' = [batch EXCEPT ![SchedRunner(s)] = IdleBatch]
                  /\ UNCHANGED requests
    /\ UNCHANGED <<message, clients, stream, readyState, revision, donors, today, now, queuedAtCreate, confirm, read, sms, tokens>>

(* ------------------------- getBloodRequestById ------------------------- *)
LifecycleStatus_ExpiryFirst(status, isFull, isExpired) ==
    IF status = "active"
    THEN IF isExpired THEN "expired"
         ELSE IF isFull THEN "fulfilled"
         ELSE status
    ELSE status

\* The status the lifecycle evaluation assigns to the copy.
LifecycleStatus(status, isFull, isExpired) ==
    IF status = "active"
    THEN IF isFull THEN "fulfilled"
         ELSE IF isExpired THEN "expired"
         ELSE status
    ELSE status

\* if (request.status !== 'active' || isFull || isExpired) -> closed
PublicView(rev, status, isFull, isExpired) ==
    IF rev = "rev2" /\ (status # "active" \/ isFull \/ isExpired)
    THEN "closed"
    ELSE "details"

IsFull_AnyUnit(doc) == doc.confirmedUnits >= 1

\* const isFull = request.confirmedUnits >= request.quantity
IsFull(doc) == doc.confirmedUnits >= doc.quantity

\* findById, then now = new Date(), isExpired, isFull and the status assignment
getBloodRequestById_load(g, id) ==
    /\ read[g].pc \in {"idle", "done"}
    /\ Connected
    /\ IF ~Exists(id) THEN
           read' = [read EXCEPT ![g] = [IdleRead EXCEPT !.pc = "done", !.req = id,
                                                      !.res = "notfound"]]
       ELSE LET doc == requests[id]
                isExpired == now > doc.requiredBy
                isFull == IsFull(doc)
                status == IF revision = "rev2"
                          THEN LifecycleStatus(doc.status, isFull, isExpired)
                          ELSE doc.status
            IN  IF status # doc.status THEN
                    read' = [read EXCEPT ![g] = [pc |-> "save", req |-> id, status |-> status,
                                                 isFull |-> isFull, isExpired |-> isExpired,
                                                 res |-> "none"]]
                ELSE
                    read' = [read EXCEPT ![g] = [IdleRead EXCEPT !.pc = "done", !.req = id,
                                 !.res = PublicView(revision, status, isFull, isExpired)]]
    /\ UNCHANGED <<message, clients, stream, readyState, revision, donors, today, now, requests, queuedAtCreate, confirm, batch, sched, sms, tokens>>

\* await request.save(): $set status; then the response
getBloodRequestById_save(g) ==
    /\ read[g].pc = "save"
    /\ Connected
    /\ requests' = [requests EXCEPT ![read[g].req].status = read[g].status]
    /\ read' = [read EXCEPT ![g] = [IdleRead EXCEPT !.pc = "done", !.req = read[g].req,
                   !.res = PublicView(revision, read[g].status, read[g].isFull, read[g].isExpired)]]
    /\ UNCHANGED <<message, clients, stream, readyState, revision, donors, today, now, queuedAtCreate, confirm, batch, sched, sms, tokens>>

(* --------------------------- confirmDonation --------------------------- *)
\* const { requestId } = req.body; const now = new Date();
confirmDonation_begin(c, id) ==
    /\ revision = "rev2"
    /\ confirm[c].pc = "idle"
    /\ \A c2 \in Calls : c2 < c => confirm[c2].pc # "idle"
    /\ confirm' = [confirm EXCEPT ![c] = [IdleConfirm EXCEPT !.pc = "update", !.req = id, !.t = now]]
    /\ UNCHANGED <<message, clients, stream, readyState, revision, donors, today, now, requests, queuedAtCreate, read, batch, sched, sms, tokens>>

ConfirmFilter_NoQuota(doc, t) ==
    /\ doc.status = "active"
    /\ doc.requiredBy >= t

ConfirmFilter_Lte(doc, t) ==
    /\ doc.status = "active"
    /\ doc.confirmedUnits <= doc.quantity
    /\ doc.requiredBy >= t

ConfirmFilter_NoStatus(doc, t) ==
    /\ doc.confirmedUnits < doc.quantity
    /\ doc.requiredBy >= t

\* {status: 'active', $expr: {$lt: ['$confirmedUnits', '$quantity']}, requiredBy: {$gte: now}}
ConfirmFilter(doc, t) ==
    /\ doc.status = "active"
    /\ doc.confirmedUnits < doc.quantity
    /\ doc.requiredBy >= t

ConfirmUpdate_ClosesBatch(doc) ==
    [doc EXCEPT !.confirmedUnits = @ + 1, !.batchInProgress = FALSE]

\* {$inc: {confirmedUnits: 1}}
ConfirmUpdate(doc) == [doc EXCEPT !.confirmedUnits = @ + 1]

\* findOneAndUpdate(filter, {$inc: {confirmedUnits: 1}}, {new: true}); a miss is answered 400
confirmDonation_findOneAndUpdate(c) ==
    /\ confirm[c].pc = "update"
    /\ Connected
    /\ LET id == confirm[c].req
           seen == IF Exists(id) THEN requests[id].status ELSE "none" IN
       IF Exists(id) /\ ConfirmFilter(requests[id], confirm[c].t) THEN
           /\ requests' = [requests EXCEPT ![id] = ConfirmUpdate(requests[id])]
           /\ confirm' = [confirm EXCEPT ![c].pc = "updated", ![c].t = 0, ![c].seen = seen,
                                         ![c].units = requests[id].confirmedUnits + 1,
                                         ![c].quantity = requests[id].quantity]
       ELSE
           /\ confirm' = [confirm EXCEPT ![c].pc = "done", ![c].res = "closed", ![c].t = 0,
                                         ![c].seen = seen]
           /\ UNCHANGED requests
    /\ UNCHANGED <<message, clients, stream, readyState, revision, donors, today, now, queuedAtCreate, read, batch, sched, sms, tokens>>

\* if (updatedRequest.confirmedUnits >= updatedRequest.quantity) { status = 'fulfilled'; save() }
confirmDonation_save(c) ==
    /\ confirm[c].pc = "updated"
    /\ Connected
    /\ IF confirm[c].units >= confirm[c].quantity
       THEN requests' = [requests EXCEPT ![confirm[c].req].status = "fulfilled"]
       ELSE UNCHANGED requests
    /\ confirm' = [confirm EXCEPT ![c].pc = "respond"]
    /\ UNCHANGED <<message, clients, stream, readyState, revision, donors, today, now, queuedAtCreate, read, batch, sched, sms, tokens>>

\* res.json({success: true, ...})
confirmDonation_respond(c) ==
    /\ confirm[c].pc = "respond"
    /\ confirm' = [confirm EXCEPT ![c].pc = "done", ![c].res = "success",
                                  ![c].units = 0, ![c].quantity = 0]
    /\ UNCHANGED <<message, clients, stream, readyState, revision, donors, today, now, requests, queuedAtCreate, read, batch, sched, sms, tokens>>

(* ------------------------------ cancel --------------------------------- *)
\* The hospital or an admin cancels a request that is in progress.
cancelRequest(id) ==
    /\ Exists(id)
    /\ requests[id].status = InProgressStatus(revision)
    /\ requests' = [requests EXCEPT ![id].status = "cancelled"]
    /\ UNCHANGED <<message, clients, stream, readyState, revision, donors, today, now, queuedAtCreate, confirm, read, batch, sched, sms, tokens>>

(* ------------------------------ restart -------------------------------- *)
\* The process stops at any point of the background work and is started
\* again: the runs of sendNextBatch and the scheduler cycles under way are
\* lost with what they held in memory, the collections are kept, and the
\* scheduler is started anew.  (Taken between HTTP calls: a call cut off by
\* the restart has no answer.)
restart ==
    /\ \A c \in Calls : confirm[c].pc \in {"idle", "done"}
    /\ \A g \in Reads : read[g].pc \in {"idle", "done"}
    /\ \/ \E x \in Runners : batch[x].pc # "idle"
       \/ \E s \in Scheds : sched[s].pc # "idle"
    /\ batch' = [x \in Runners |-> IdleBatch]
    /\ sched' = [s \in Scheds |-> IdleSched]
    /\ UNCHANGED <<message, clients, stream, readyState, revision, donors, today, now, requests, queuedAtCreate, confirm, read, sms, tokens>>

(* ------------------- failures and the connection ----------------------- *)
\* The connection to the store is lost ('disconnected') and comes back
\* ('reconnected').
disconnect ==
    /\ readyState = 1
    /\ readyState' = 0
    /\ UNCHANGED <<message, clients, stream, revision, donors, today, now, requests, queuedAtCreate, confirm, read, batch, sched, sms, tokens>>

reconnect ==
    /\ readyState = 0
    /\ readyState' = 1
    /\ UNCHANGED <<message, clients, stream, revision, donors, today, now, requests, queuedAtCreate, confirm, read, batch, sched, sms, tokens>>

\* if (mongoose.connection.readyState !== 1) return;
checkPendingBatches_notReady(s) ==
    /\ sched[s].pc = "idle"
    /\ \A s2 \in Scheds : s2 < s => sched[s2].pc # "idle"
    /\ ~Connected
    /\ sched' = [sched EXCEPT ![s] = [IdleSched EXCEPT !.res = "notReady"]]
    /\ UNCHANGED <<message, clients, stream, readyState, revision, donors, today, now, requests, queuedAtCreate, confirm, read, batch, sms, tokens>>

CycleCaught_Unhandled == [IdleSched EXCEPT !.pc = "rejected", !.res = "error"]

\* catch (err) { console.error('[Scheduler] Error checking pending batches:', ...) }
CycleCaught == [IdleSched EXCEPT !.res = "error"]

\* BloodRequest.find rejects, or request.save() of a request whose window has
\* closed rejects: the catch around the cycle logs it and the cycle ends, the
\* requests left in its list are not looked at.
checkPendingBatches_catch(s) ==
    /\ \/ /\ sched[s].pc = "idle"
          /\ \A s2 \in Scheds : s2 < s => sched[s2].pc # "idle"
          /\ Connected
       \/ /\ sched[s].pc = "loop"
          /\ batch[SchedRunner(s)].pc \in {"idle", "done"}
          /\ sched[s].pending # << >>
          /\ WindowClosed(Head(sched[s].pending), sched[s].t)
    /\ sched' = [sched EXCEPT ![s] = CycleCaught]
    /\ batch' = [batch EXCEPT ![SchedRunner(s)] = IdleBatch]
    /\ UNCHANGED <<message, clients, stream, readyState, revision, donors, today, now, requests, queuedAtCreate, confirm, read, sms, tokens>>

RunCaught_Rethrown == [IdleBatch EXCEPT !.pc = "rejected"]

\* catch (error) { console.error('Error in sendNextBatch:', error); }
RunCaught == [IdleBatch EXCEPT !.pc = "done"]

\* findById, request.save() or Donor.find rejects: the outer catch logs it and
\* the run returns.
sendNextBatch_catch(x) ==
    /\ \/ batch[x].pc \in {"load", "save"}
       \/ /\ batch[x].pc = "send"
          /\ batch[x].todo = FoundDonors(batch[x].ids)
          /\ batch[x].tokened = {}
          /\ batch[x].outcome = {}
    /\ batch' = [batch EXCEPT ![x] = RunCaught]
    /\ UNCHANGED <<message, clients, stream, readyState, revision, donors, today, now, requests, queuedAtCreate, confirm, read, sched, sms, tokens>>

ThenSend_Regardless(created) == TRUE

\* await ResponseToken.create(...): the donor's callback goes on to the message
\* when the token is created, and to its catch when create rejects
ThenSend(created) == created

StillToProcess_AbortOnFailure(todo, d, o) ==
    IF o \in {"tokenFailed", "templateFailed", "sendFailed"} THEN {} ELSE todo \ {d}

\* donors.map(async (donor) => { try {...} catch (err) {...} }): the end of one
\* donor's callback, however it ends, leaves the other callbacks as they are
StillToProcess(todo, d, o) == todo \ {d}

AfterCallback_Requeue(doc, d, o) ==
    IF o \in {"noPhone", "tokenFailed", "templateFailed", "sendFailed"}
    THEN [doc EXCEPT !.remainingDonorsQueue = Append(@, d)]
    ELSE doc

\* if (!donorPhone) return; ... catch (err) { console.error(...) }: a callback
\* that ends, however it ends, writes nothing to the request
AfterCallback(doc, d, o) == doc

\* the callback of donor d has ended with outcome o
Ended(run, d, o) ==
    [run EXCEPT !.todo = StillToProcess(run.todo, d, o),
                !.tokened = run.tokened \cap StillToProcess(run.todo, d, o),
                !.outcome = run.outcome \cup {<<d, o>>}]

\* One donor's callback up to the creation of the token: a donor without a
\* phone number is passed over; ResponseToken.create succeeds or rejects.
sendNextBatch_token(x, d, created) ==
    /\ batch[x].pc = "send"
    /\ d \in batch[x].todo \ batch[x].tokened
    /\ IF ~DonorById(d).phone THEN
           /\ created
           /\ batch' = [batch EXCEPT ![x] = Ended(batch[x], d, "noPhone")]
           /\ requests' = [requests EXCEPT ![batch[x].req] = AfterCallback(@, d, "noPhone")]
           /\ UNCHANGED tokens
       ELSE
           /\ created => Connected
           /\ tokens' = IF created THEN tokens (+) SetToBag({<<batch[x].req, d>>}) ELSE tokens
           /\ batch' = [batch EXCEPT ![x] =
                  IF ThenSend(created)
                  THEN [batch[x] EXCEPT !.tokened = batch[x].tokened \cup {d}]
                  ELSE Ended(batch[x], d, "tokenFailed")]
           /\ requests' = IF ThenSend(created) THEN requests
                          ELSE [requests EXCEPT ![batch[x].req] = AfterCallback(@, d, "tokenFailed")]
    /\ UNCHANGED <<message, clients, stream, readyState, revision, donors, today, now, queuedAtCreate, confirm, read, sched, sms>>

\* how the rest of a donor's callback can end: building the message throws
\* (hospital.name of a hospital that is gone), or the message is handed to
\* sendSMS, which reports success or failure
SendOutcomes == {"templateFailed", "sent", "sendFailed"}

\* The rest of the callback of a donor whose token is created.
sendNextBatch_sms(x, d, o) ==
    /\ batch[x].pc = "send"
    /\ d \in batch[x].tokened
    /\ o \in SendOutcomes
    /\ sms' = IF o # "templateFailed" THEN sms (+) SetToBag({<<batch[x].req, d>>}) ELSE sms
    /\ batch' = [batch EXCEPT ![x] = Ended(batch[x], d, o)]
    /\ requests' = [requests EXCEPT ![batch[x].req] = AfterCallback(@, d, o)]
    /\ UNCHANGED <<message, clients, stream, readyState, revision, donors, today, now, queuedAtCreate, confirm, read, sched, tokens>>

\* await Promise.allSettled(smsPromises): the run returns when every callback
\* has ended.
sendNextBatch_allSettled(x) ==
    /\ batch[x].pc = "send"
    /\ batch[x].todo = {}
    /\ batch' = [batch EXCEPT ![x] = [IdleBatch EXCEPT !.pc = "done"]]
    /\ UNCHANGED <<message, clients, stream, readyState, revision, donors, today, now, requests, queuedAtCreate, confirm, read, sched, sms, tokens>>

(* --------------------------- specification ----------------------------- *)
Next ==
    \/ Tick
    \/ \E g \in RequestedGroups, q \in 1..MaxQuantity, by \in RequiredBys :
           createBloodRequest(g, q, by)
    \/ \E x \in Runners : sendNextBatch_load(x)
    \/ \E x \in Runners : sendNextBatch_save(x)
    \/ \E x \in Runners : sendNextBatch_send(x)
    \/ \E s \in Scheds : checkPendingBatches_find(s)
    \/ \E s \in Scheds : checkPendingBatches_step(s)
    \/ \E g \in Reads, id \in CallerIds : getBloodRequestById_load(g, id)
    \/ \E g \in Reads : getBloodRequestById_save(g)
    \/ \E c \in Calls, id \in CallerIds : confirmDonation_begin(c, id)
    \/ \E c \in Calls : confirmDonation_findOneAndUpdate(c)
    \/ \E c \in Calls : confirmDonation_save(c)
    \/ \E c \in Calls : confirmDonation_respond(c)
    \/ \E id \in RequestIds : cancelRequest(id)
    \/ restart

Spec == Init /\ [][Next]_vars

(* The timers and the detached runs go on by themselves: the clock, the     *)
(* scheduler cycles and the sendNextBatch runs that were started proceed.   *)
(* HTTP calls (reads, confirmations, creations), cancellations and restarts *)
(* come from outside and need not happen.                                   *)
Fairness ==
    /\ WF_vars(Tick)
    /\ \A s \in Scheds : WF_vars(checkPendingBatches_find(s)) /\ WF_vars(checkPendingBatches_step(s))
    /\ \A x \in Runners : /\ WF_vars(sendNextBatch_load(x))
                           /\ WF_vars(sendNextBatch_save(x))
                           /\ WF_vars(sendNextBatch_send(x))

SpecFair == Init /\ [][Next]_vars /\ Fairness

(* The same engine with its failures: the connection goes and comes back,   *)
(* a database operation of the scheduler or of sendNextBatch may reject,    *)
(* and the callbacks of the donors of a batch run one by one and may fail.  *)
(* The collection may hold a request stored with the batch size the schema  *)
(* defaults to, whose first run is about to start.                          *)
StoredRequest(rev, bloodGroup, quantity, requiredBy) ==
    [NewRequest(rev, bloodGroup, quantity, requiredBy, BuildQueue(Directory, bloodGroup, Today))
        EXCEPT !.batchSize = SchemaBatchSize]

InitFaults ==
    /\ readyState \in {0, 1}
    /\ revision \in Revisions
    /\ donors = Directory
    /\ today = Today
    /\ now = 0
    /\ \/ /\ requests = << >>
          /\ queuedAtCreate = << >>
          /\ batch = [x \in Runners |-> IdleBatch]
       \/ \E g \in RequestedGroups, by \in RequiredBys :
             /\ requests = << StoredRequest(revision, g, MaxQuantity, by) >>
             /\ queuedAtCreate = << Len(requests[1].remainingDonorsQueue) >>
             /\ batch = [x \in Runners |->
                            IF x = InitRunner(1)
                            THEN [IdleBatch EXCEPT !.pc = "load", !.req = 1]
                            ELSE IdleBatch]
    /\ confirm = [c \in Calls |-> IdleConfirm]
    /\ read = [g \in Reads |-> IdleRead]
    /\ sched = [s \in Scheds |-> IdleSched]
    /\ sms = EmptyBag
    /\ tokens = EmptyBag
    /\ message = NoMessage
    /\ clients = << >>
    /\ stream = IdleStream

NextFaults ==
    \/ Tick
    \/ disconnect
    \/ reconnect
    \/ \E g \in RequestedGroups, q \in 1..MaxQuantity, by \in RequiredBys :
           createBloodRequest(g, q, by)
    \/ \E x \in Runners : sendNextBatch_load(x)
    \/ \E x \in Runners : sendNextBatch_save(x)
    \/ \E x \in Runners : \E d \in FoundDonors(batch[x].ids), created \in BOOLEAN :
           sendNextBatch_token(x, d, created)
    \/ \E x \in Runners : \E d \in FoundDonors(batch[x].ids), o \in SendOutcomes :
           sendNextBatch_sms(x, d, o)
    \/ \E x \in Runners : sendNextBatch_allSettled(x)
    \/ \E x \in Runners : sendNextBatch_catch(x)
    \/ \E s \in Scheds : checkPendingBatches_find(s)
    \/ \E s \in Scheds : checkPendingBatches_step(s)
    \/ \E s \in Scheds : checkPendingBatches_notReady(s)
    \/ \E s \in Scheds : checkPendingBatches_catch(s)

SpecFaults == InitFaults /\ [][NextFaults]_vars

(* The eligibility filter on its own: createBloodRequest over directories   *)
(* of one donor whose blood group fields and last donation date vary, on    *)
(* several calendar dates.                                                  *)
FilterTodays == { [m |-> 18, d |-> 31], [m |-> 16, d |-> 31], [m |-> 14, d |-> 15] }
DonorGroups == { <<"O", "+">>, <<"o", " ", "+">>, <<"\t", "O", "+", " ">>, <<"O", "-">>, << >> }
DonorAltGroups == { << >>, <<"O", "+">>, <<"a", "+">> }
LastDonations(date) ==
    { NoDate, SetMonthBack(date, 1), SetMonthBack(date, 4),
      SetMonthBack(date, ExclusionMonths) - 1, SetMonthBack(date, ExclusionMonths),
      SetMonthBack(date, ExclusionMonths) + 1 }

InitFilter ==
    /\ readyState = 1
    /\ revision \in Revisions
    /\ today \in FilterTodays
    /\ \E g \in DonorGroups, a \in DonorAltGroups, l \in LastDonations(today) :
           donors = << [id |-> 1, name |-> 1, bloodGroup |-> g, altBloodGroup |-> a,
                        lastDonationDate |-> l, phone |-> TRUE] >>
    /\ now = 0
    /\ requests = << >>
    /\ queuedAtCreate = << >>
    /\ confirm = [c \in Calls |-> IdleConfirm]
    /\ read = [g \in Reads |-> IdleRead]
    /\ batch = [x \in Runners |-> IdleBatch]
    /\ sched = [s \in Scheds |-> IdleSched]
    /\ sms = EmptyBag
    /\ tokens = EmptyBag
    /\ message = NoMessage
    /\ clients = << >>
    /\ stream = IdleStream

NextFilter ==
    \E g \in RequestedGroups, q \in 1..MaxQuantity, by \in RequiredBys :
        createBloodRequest(g, q, by)

SpecFilter == InitFilter /\ [][NextFilter]_vars

(* ----------------------- the message of one donor ---------------------- *)
(* The text sendNextBatch hands to sendSMS, on its own. A text is a        *)
(* sequence of pieces: a placeholder is one piece, a substituted value is  *)
(* one piece, and the literal text between them is one piece.              *)
MaxTemplateLen == 3

\* the link put into the message: the two revisions use different hosts
ResponseUrl(rev, id) ==
    IF rev = "rev2" THEN "https://innovate-tracker2.vercel.app/" \o ToString(id)
                    ELSE "https://donor-tracker-msrl.vercel.app/" \o ToString(id)

\* a link that is not the response URL of any request
OtherLink == "http://example.org"
HospitalName == "City Hospital"
DonorName == "Donor"
Urgencies == {"low", "medium", "high", "pregnancy"}

UrgencyText(urgency) ==
    IF urgency = "pregnancy" THEN "PREGNANCY EMERGENCY - URGENT"
    ELSE IF urgency = "high" THEN "HIGH PRIORITY - EMERGENCY"
    ELSE IF urgency = "medium" THEN "MEDIUM PRIORITY"
    ELSE "LOW PRIORITY"

\* getSMSTemplate returns one text, whatever the priority
getSMSTemplate(priority) ==
    << "URGENT BLOOD REQUEST: ", "{quantity}", " units of ", "{bloodType}", " needed at ",
       "{hospital}", ". ", "{urgency}", ". Respond: ", "{responseUrl}" >>

\* a blood group as the text the message shows
RECURSIVE GroupText(_)
GroupText(g) == IF g = << >> THEN "" ELSE Head(g) \o GroupText(Tail(g))

\* the keys of templateVars, in the order the object literal lists them
TemplateVars(rev, id, m) ==
    << [key |-> "{hospital}", value |-> HospitalName],
       [key |-> "{bloodType}", value |-> GroupText(m.bloodGroup)],
       [key |-> "{quantity}", value |-> ToString(m.quantity)],
       [key |-> "{urgency}", value |-> UrgencyText(m.urgency)],
       [key |-> "{donorName}", value |-> DonorName],
       [key |-> "{responseUrl}", value |-> ResponseUrl(rev, id)] >>

\* String.prototype.replace with a string pattern: the first occurrence only
ReplaceFirst(msg, key, value) ==
    LET at == {i \in 1..Len(msg) : msg[i] = key}
    IN  IF at = {} THEN msg
        ELSE LET i == CHOOSE k \in at : \A j \in at : k <= j
             IN  SubSeq(msg, 1, i - 1) \o << value >> \o SubSeq(msg, i + 1, Len(msg))

RECURSIVE formatSMSMessage(_, _)
formatSMSMessage(template, vs) ==
    IF vs = << >> THEN template
    ELSE formatSMSMessage(ReplaceFirst(template, vs[1].key, vs[1].value), Tail(vs))

\* message.includes('http'): a link is the only piece that holds these letters
IncludesHttp(msg) ==
    \E i \in 1..Len(msg) : msg[i] = OtherLink \/ msg[i] \in {ResponseUrl(r, 1) : r \in Revisions}
IncludesPlaceholder(msg) == \E i \in 1..Len(msg) : msg[i] = "{responseUrl}"

BuildMessage(rev, id, m) ==
    LET vs == TemplateVars(rev, id, m)
        rendered == formatSMSMessage(m.smsTemplate, vs)
    IN  IF m.urgency = "pregnancy"
        THEN << "PREGNANCY EMERGENCY: ", ToString(m.quantity), " units ", GroupText(m.bloodGroup),
                " blood needed URGENTLY for pregnant patient at ", HospitalName,
                ". Please respond: ", ResponseUrl(rev, id) >>
        ELSE IF ~IncludesHttp(rendered) /\ ~IncludesPlaceholder(rendered)
             THEN rendered \o << " Respond: ", ResponseUrl(rev, id) >>
             ELSE rendered

\* the template texts of at most MaxTemplateLen pieces, and the one the
\* service returns
TemplatePieces == {"Blood needed at ", "{hospital}", "{responseUrl}", OtherLink}
Templates ==
    UNION {[1..n -> TemplatePieces] : n \in 0..MaxTemplateLen}
        \cup {getSMSTemplate(p) : p \in {"high", "normal"}}

InitMessage ==
    /\ readyState = 1
    /\ revision \in Revisions
    /\ donors = Directory
    /\ today = Today
    /\ now = 0
    /\ requests = << >>
    /\ queuedAtCreate = << >>
    /\ confirm = [c \in Calls |-> IdleConfirm]
    /\ read = [g \in Reads |-> IdleRead]
    /\ batch = [x \in Runners |-> IdleBatch]
    /\ sched = [s \in Scheds |-> IdleSched]
    /\ sms = EmptyBag
    /\ tokens = EmptyBag
    /\ \E u \in Urgencies, g \in BloodGroupEnum, q \in 1..MaxQuantity, t \in Templates :
           message = [pc |-> "build", urgency |-> u, bloodGroup |-> g, quantity |-> q,
                      smsTemplate |-> t, body |-> << >>]
    /\ clients = << >>
    /\ stream = IdleStream

\* the message is built and handed to sendSMS
sendNextBatch_message ==
    /\ message.pc = "build"
    /\ message' = [message EXCEPT !.pc = "sent", !.body = BuildMessage(revision, 1, message)]
    /\ UNCHANGED <<clients, stream, readyState, revision, donors, today, now, requests, queuedAtCreate, confirm, read, batch, sched, sms, tokens>>

NextMessage == sendNextBatch_message

SpecMessage == InitMessage /\ [][NextMessage]_vars

(* ------------------------ live-update subscribers ---------------------- *)
(* notificationStream.js on its own. A connection is numbered by the order *)
(* it was opened in: stream.ids[n] is the clientId the close handler of    *)
(* connection n captured, stream.open the connections that have not closed *)
(* and stream.written the connections the latest broadcast wrote to.       *)
MaxConnects == 3
MaxMs == 2

\* Date.now() moves on
elapse ==
    /\ stream.ms < MaxMs
    /\ stream' = [stream EXCEPT !.ms = @ + 1]
    /\ UNCHANGED <<message, clients, readyState, revision, donors, today, now, requests, queuedAtCreate, confirm, read, batch, sched, sms, tokens>>

addClient ==
    /\ Len(stream.ids) < MaxConnects
    /\ LET clientId == stream.ms
           res == Len(stream.ids) + 1
       IN  /\ clients' = Append(clients, [id |-> clientId, res |-> res])
           /\ stream' = [stream EXCEPT !.ids = Append(@, clientId), !.open = @ \cup {res}]
    /\ UNCHANGED <<message, readyState, revision, donors, today, now, requests, queuedAtCreate, confirm, read, batch, sched, sms, tokens>>

\* clients.findIndex(c => c.id === clientId): the first match, or -1
FindIndex(cs, clientId) ==
    LET at == {i \in 1..Len(cs) : cs[i].id = clientId}
    IN  IF at = {} THEN 0 - 1 ELSE (CHOOSE k \in at : \A j \in at : k <= j) - 1

\* clients.splice(index, 1), index counted from 0
Splice(cs, index) == SubSeq(cs, 1, index) \o SubSeq(cs, index + 2, Len(cs))

\* the 'close' event of connection n
close(n) ==
    /\ n \in stream.open
    /\ LET index == FindIndex(clients, stream.ids[n])
       IN  clients' = IF index # 0 - 1 THEN Splice(clients, index) ELSE clients
    /\ stream' = [stream EXCEPT !.open = @ \ {n}]
    /\ UNCHANGED <<message, readyState, revision, donors, today, now, requests, queuedAtCreate, confirm, read, batch, sched, sms, tokens>>

broadcastNotification ==
    /\ stream' = [stream EXCEPT !.written = {clients[i].res : i \in 1..Len(clients)}]
    /\ UNCHANGED <<message, clients, readyState, revision, donors, today, now, requests, queuedAtCreate, confirm, read, batch, sched, sms, tokens>>

NextStream ==
    \/ elapse
    \/ addClient
    \/ \E n \in 1..MaxConnects : close(n)
    \/ broadcastNotification

SpecStream == Init /\ [][NextStream]_vars

TypeOK ==
    /\ readyState \in {0, 1}
    /\ revision \in Revisions
    /\ now \in 0..MaxTime
    /\ Len(requests) <= MaxRequests
    /\ \A id \in 1..Len(requests) : requests[id].status \in Statuses

(* ======================================================================= *)
(* Claims                                                                  *)
(* ======================================================================= *)
Docs == 1..Len(requests)

Range(q) == {q[i] : i \in 1..Len(q)}
NoDuplicates(q) == \A i, j \in 1..Len(q) : q[i] = q[j] => i = j

\* the calls that have been made for request id, and those that have returned
CallsOn(id) == {c \in Calls : confirm[c].pc # "idle" /\ confirm[c].req = id}
Succeeded(id) == {c \in CallsOn(id) : confirm[c].res = "success"}

(* C1: in every reachable state, whatever confirmations, reads, scheduler  *)
(* cycles and sendNextBatch runs interleave, confirmedUnits of a request   *)
(* does not exceed its quantity.                                           *)
C1_ConfirmedWithinQuantity ==
    \A id \in Docs : requests[id].confirmedUnits <= requests[id].quantity

\* a confirmation was turned away by the quota alone: the request is full,
\* still stored as active and unexpired when the call's update ran
C1_Witness ==
    \E id \in Docs, c \in Calls :
        /\ requests[id].confirmedUnits = requests[id].quantity
        /\ confirm[c].req = id
        /\ confirm[c].res = "closed"
        /\ confirm[c].seen = "active"
        /\ now <= requests[id].requiredBy

(* C2: when N confirmDonation calls were made on a request that started    *)
(* active with confirmedUnits 0 and is still unexpired (and was not        *)
(* cancelled), then once all of them have returned confirmedUnits is       *)
(* min(N, quantity) and at most quantity calls reported success.           *)
C2_NoOverbooking ==
    \A id \in Docs :
        ( /\ CallsOn(id) # {}
          /\ \A c \in CallsOn(id) : confirm[c].pc = "done"
          /\ now <= requests[id].requiredBy
          /\ requests[id].status # "cancelled" )
        => /\ requests[id].confirmedUnits = Min(Cardinality(CallsOn(id)), requests[id].quantity)
           /\ Cardinality(Succeeded(id)) <= requests[id].quantity

\* more calls than units: all have returned, one of them without success
C2_Witness ==
    \E id \in Docs :
        /\ \A c \in CallsOn(id) : confirm[c].pc = "done"
        /\ Cardinality(CallsOn(id)) > requests[id].quantity
        /\ Cardinality(Succeeded(id)) = requests[id].quantity
        /\ now <= requests[id].requiredBy
        /\ requests[id].status # "cancelled"

(* C3 (as claimed): once the stored status of a request is fulfilled or    *)
(* expired, no step changes it.                                            *)
C3_TerminalSticky ==
    [][\A id \in Docs :
          requests[id].status \in {"fulfilled", "expired"}
          => requests'[id].status = requests[id].status]_vars

(* C4: the conditional update of a confirmDonation call that finds the     *)
(* request fulfilled, expired or cancelled answers with the domain error   *)
(* and changes no field of any stored request.                             *)
C4_ClosedRequestRejected ==
    [][\A c \in Calls :
          ( /\ confirm[c].pc = "update"
            /\ confirm'[c].pc # "update"
            /\ Exists(confirm[c].req)
            /\ requests[confirm[c].req].status \in Terminal )
          => /\ confirm'[c].pc = "done"
             /\ confirm'[c].res = "closed"
             /\ requests' = requests]_vars

\* a call was turned away by a request that was unfilled and unexpired: by
\* its status alone
C4_Witness ==
    \E c \in Calls :
        /\ confirm[c].pc = "done"
        /\ confirm[c].res = "closed"
        /\ confirm[c].seen \in Terminal
        /\ requests[confirm[c].req].confirmedUnits < requests[confirm[c].req].quantity
        /\ now <= requests[confirm[c].req].requiredBy

(* C5: for every request, no donor id is both in remainingDonorsQueue and  *)
(* in notifiedDonors, and no donor id occurs twice in either.              *)
C5_QueuePartition ==
    \A id \in Docs :
        /\ NoDuplicates(requests[id].remainingDonorsQueue)
        /\ NoDuplicates(requests[id].notifiedDonors)
        /\ Range(requests[id].remainingDonorsQueue) \cap Range(requests[id].notifiedDonors) = {}

\* a sendNextBatch run is about to save a copy another run has overtaken
C5_Witness ==
    \E x \in Runners :
        /\ batch[x].pc = "save"
        /\ requests[batch[x].req].v > batch[x].v
        /\ batch[x].ids[1] \in Range(requests[batch[x].req].notifiedDonors)

(* C6: for every request, the lengths of remainingDonorsQueue and          *)
(* notifiedDonors add up to no more than the number of donors queued at    *)
(* creation.                                                               *)
C6_QueueTotalBounded ==
    \A id \in Docs :
        Len(requests[id].remainingDonorsQueue) + Len(requests[id].notifiedDonors)
            <= queuedAtCreate[id]

\* two cycles are under way at once and every queued donor has been dequeued
C6_Witness ==
    \E id \in Docs :
        /\ \A s \in Scheds : sched[s].pc # "idle" \/ batch[SchedRunner(s)].pc # "idle"
        /\ requests[id].remainingDonorsQueue = << >>
        /\ Len(requests[id].notifiedDonors) = queuedAtCreate[id]
        /\ queuedAtCreate[id] >= 3

(* C7 (as claimed): a sendNextBatch run that follows another one on the    *)
(* same request before the response window of the batch sent last has      *)
(* elapsed dequeues nothing.                                               *)
C7_OneBatchPerWindow ==
    [][\A id \in Docs :
          Len(requests'[id].notifiedDonors) > Len(requests[id].notifiedDonors)
          => \/ requests[id].batchSentAt = NoDate
             \/ now - requests[id].batchSentAt >= WindowMinutes(requests[id])]_vars

\* the donors a request has queued or has already dequeued
Selected(id) ==
    Range(requests[id].remainingDonorsQueue) \cup Range(requests[id].notifiedDonors)

(* C8: createBloodRequest queues a donor if and only if the donor's blood  *)
(* group equals the requested one once both are stripped of whitespace and *)
(* upper-cased, and the donor never donated or donated not later than      *)
(* three months before now; a donor who donated one month ago is left out, *)
(* one who donated four months ago or never, of the right group, is in.    *)
C8_Eligibility ==
    \A id \in Docs, i \in 1..Len(donors) :
        LET donor == donors[i]
            requested == requests[id].bloodGroup
            sameGroup == Normalize(DonorBloodGroup(donor)) = Normalize(requested)
            threeMonthsAgo == SetMonthBack(today, 3)
        IN  /\ donor.id \in Selected(id)
                <=> /\ sameGroup
                    /\ \/ donor.lastDonationDate = NoDate
                       \/ donor.lastDonationDate <= threeMonthsAgo
            /\ donor.lastDonationDate = SetMonthBack(today, 1) => donor.id \notin Selected(id)
            /\ (sameGroup /\ donor.lastDonationDate \in {NoDate, SetMonthBack(today, 4)})
                   => donor.id \in Selected(id)

\* a donor whose group is written differently and who donated exactly three
\* months ago has been queued
C8_Witness ==
    \E id \in Docs, i \in 1..Len(donors) :
        /\ donors[i].id \in Selected(id)
        /\ donors[i].bloodGroup # requests[id].bloodGroup
        /\ donors[i].bloodGroup # << >>
        /\ donors[i].lastDonationDate = SetMonthBack(today, 3)

(* C9 (as claimed): when a confirmDonation call whose increment brought    *)
(* confirmedUnits up to quantity answers success, the stored status of the *)
(* request is fulfilled.                                                   *)
C9_FulfilledOnReturn ==
    [][\A c \in Calls :
          ( /\ confirm[c].pc = "respond"
            /\ confirm'[c].pc = "done"
            /\ confirm[c].units >= confirm[c].quantity )
          => requests'[confirm[c].req].status = "fulfilled"]_vars

\* a request the scheduler has to advance: in progress, unfilled, donors
\* left in the queue, and the response window of its batch has elapsed
Due(id) ==
    /\ requests[id].status = InProgressStatus(revision)
    /\ requests[id].confirmedUnits < requests[id].quantity
    /\ requests[id].remainingDonorsQueue # << >>
    /\ requests[id].batchInProgress
    /\ requests[id].batchSentAt # NoDate
    /\ now - requests[id].batchSentAt >= WindowMinutes(requests[id])

(* C10 (as claimed, the part a finite run decides): a request that is due  *)
(* is one the scan of a scheduler cycle selects, so that a cycle can       *)
(* dispatch its next batch.                                                *)
C10_DueIsSelected ==
    \A id \in Docs : Due(id) => IsPendingBatch(requests[id])

\* the number of times a message for request id was handed to sendSMS for a donor
TimesSent(id, d) == CopiesIn(<<id, d>>, sms)

(* C11: for every request, no donor id was dequeued twice (each dequeue    *)
(* appends to notifiedDonors), no donor was handed to the send capability  *)
(* more than once, and no two sendNextBatch runs that got past their save  *)
(* hold the same donor of the same request.                                *)
C11_AtMostOnce ==
    /\ \A id \in Docs : NoDuplicates(requests[id].notifiedDonors)
    /\ \A p \in BagToSet(sms) : CopiesIn(p, sms) <= 1
    /\ \A x, y \in Runners :
           (x # y /\ batch[x].pc = "send" /\ batch[y].pc = "send" /\ batch[x].req = batch[y].req)
           => Range(batch[x].ids) \cap Range(batch[y].ids) = {}

\* a run is about to save a batch whose donor another run, which overtook
\* it, has already sent a message to
C11_Witness ==
    \E x \in Runners :
        /\ batch[x].pc = "save"
        /\ requests[batch[x].req].v > batch[x].v
        /\ TimesSent(batch[x].req, batch[x].ids[1]) = 1

\* cycle s has cleared batchInProgress of request id and the sendNextBatch
\* run it invoked for it has not returned
Advancing(s, id) ==
    /\ batch[SchedRunner(s)].pc \in {"load", "save", "send"}
    /\ batch[SchedRunner(s)].req = id

(* C12 (as claimed): no two scheduler cycles are advancing the same        *)
(* request at the same time, that is, have both cleared batchInProgress    *)
(* and invoked sendNextBatch for it.                                       *)
C12_NoConcurrentAdvance ==
    \A id \in Docs : \A s1, s2 \in Scheds :
        (Advancing(s1, id) /\ Advancing(s2, id)) => s1 = s2

\* the request is closed to the public at time t: not in progress any more,
\* or full, or past its deadline
ClosedAt(doc, t) ==
    \/ doc.status # InProgressStatus(revision)
    \/ doc.confirmedUnits >= doc.quantity
    \/ t > doc.requiredBy

(* C13 (as claimed): a read of a stored request (one that was not          *)
(* cancelled) answers with the closed response when the request it finds   *)
(* is not in progress, or full, or past requiredBy, and with the details   *)
(* otherwise; a read that goes on to record a status has found the request *)
(* closed and answers closed.                                              *)
C13_ClosedViewWhenClosed ==
    [][\A g \in Reads :
          /\ ( /\ read[g].pc \in {"idle", "done"}
               /\ read'[g] # read[g]
               /\ Exists(read'[g].req)
               /\ requests[read'[g].req].status # "cancelled" )
             => LET doc == requests[read'[g].req] IN
                /\ read'[g].pc = "done"
                      => read'[g].res = IF ClosedAt(doc, now) THEN "closed" ELSE "details"
                /\ read'[g].pc = "save" => ClosedAt(doc, now)
          /\ (read[g].pc = "save" /\ read'[g].pc = "done") => read'[g].res = "closed"]_vars

(* C14 (as claimed): a read or a confirmDonation call that has returned    *)
(* and was addressed to an id no request is stored under has answered      *)
(* NotFound, which is not the answer given for a closed request.           *)
C14_UnknownIdNotFound ==
    /\ \A g \in Reads :
           (read[g].pc = "done" /\ ~Exists(read[g].req)) => read[g].res = "notfound"
    /\ \A c \in Calls :
           (confirm[c].pc = "done" /\ ~Exists(confirm[c].req))
           => (confirm[c].res = "notfound" /\ confirm[c].res # "closed")

\* what a sendNextBatch run that is about to load its request will find
NothingToSend(x) ==
    \/ ~Exists(batch[x].req)
    \/ requests[batch[x].req].status \in {"fulfilled", "cancelled", "expired"}
    \/ requests[batch[x].req].remainingDonorsQueue = << >>

(* C15: a sendNextBatch run that finds no request, or a request that is    *)
(* fulfilled, cancelled or expired, or one whose remainingDonorsQueue is   *)
(* empty, returns at once: no stored request changes, no response token is *)
(* created and no message is sent, in that step and in no later step of    *)
(* the run.                                                                *)
C15_GuardedNoOp ==
    [][\A x \in Runners :
          (batch[x].pc = "load" /\ batch'[x] # batch[x] /\ NothingToSend(x))
          => /\ batch'[x].pc \in {"done", "idle"}
             /\ requests' = requests
             /\ tokens' = tokens
             /\ sms' = sms]_vars

\* the first run of a request returned without dequeuing: the request was
\* fulfilled before the run loaded it, and its queue is as it was created
C15_Witness ==
    \E id \in Docs :
        /\ batch[InitRunner(id)].pc = "done"
        /\ requests[id].status = "fulfilled"
        /\ requests[id].remainingDonorsQueue # << >>
        /\ requests[id].notifiedDonors = << >>
        /\ requests[id].batchSentAt = NoDate
        /\ sms = EmptyBag
        /\ tokens = EmptyBag

(* C16 (as claimed): a confirmDonation call answers success only after    *)
(* its conditional update matched; at the step of that update the stored   *)
(* request had status active, confirmedUnits < quantity and requiredBy not *)
(* earlier than the clock; the update raised confirmedUnits by exactly 1,  *)
(* and confirmedUnits changes in no other step.                            *)
C16_SuccessOnlyOnMatch ==
    [][/\ \A c \in Calls :
             /\ (confirm[c].pc = "update" /\ confirm'[c].pc = "updated")
                => /\ Exists(confirm[c].req)
                   /\ requests[confirm[c].req].status = "active"
                   /\ requests[confirm[c].req].confirmedUnits < requests[confirm[c].req].quantity
                   /\ requests[confirm[c].req].requiredBy >= now
                   /\ requests'[confirm[c].req].confirmedUnits
                          = requests[confirm[c].req].confirmedUnits + 1
             /\ (confirm'[c].res = "success" /\ confirm[c].res # "success")
                => confirm[c].pc = "respond"
             /\ (confirm'[c].pc = "respond" /\ confirm[c].pc # "respond")
                => confirm[c].pc = "updated"
             /\ (confirm'[c].pc = "updated" /\ confirm[c].pc # "updated")
                => confirm[c].pc = "update"
       /\ \A id \in Docs :
             requests'[id].confirmedUnits # requests[id].confirmedUnits
             => \E c \in Calls : /\ confirm[c].req = id
                                 /\ confirm[c].pc = "update"
                                 /\ confirm'[c].pc = "updated"]_vars

(* C17 (as claimed): the save of a sendNextBatch run that passed its       *)
(* guards on a request with queue q and batch size b removes exactly the   *)
(* first min(b, |q|) donor ids of q from remainingDonorsQueue, appends     *)
(* them in the same order to the end of notifiedDonors, leaves the rest of *)
(* q in order, sets batchSentAt to the time the run read and               *)
(* batchInProgress to true, and leaves status and confirmedUnits alone.    *)
C17_DequeueFront ==
    [][\A x \in Runners :
          (batch[x].pc = "save" /\ batch'[x].pc = "send")
          => LET id == batch[x].req
                 doc == requests[id]
                 q == doc.remainingDonorsQueue
                 n == Min(EffectiveBatchSize(doc), Len(q))
             IN  /\ n >= 1
                 /\ q = batch[x].ids \o batch[x].queue
                 /\ requests'[id].remainingDonorsQueue = SubSeq(q, n + 1, Len(q))
                 /\ requests'[id].notifiedDonors = doc.notifiedDonors \o SubSeq(q, 1, n)
                 /\ batch'[x].ids = SubSeq(q, 1, n)
                 /\ requests'[id].batchSentAt = batch[x].t
                 /\ requests'[id].batchInProgress = TRUE
                 /\ requests'[id].status = doc.status
                 /\ requests'[id].confirmedUnits = doc.confirmedUnits]_vars

\* the <<request, donor>> pairs a message was handed to sendSMS for, or a
\* response token was created for
Contacted == BagToSet(sms) \cup BagToSet(tokens)

WindowElapsed(id, t) ==
    /\ requests[id].batchSentAt # NoDate
    /\ t - requests[id].batchSentAt >= WindowMinutes(requests[id])

(* C19 (as claimed): a scheduler cycle clears batchInProgress of a request *)
(* and invokes sendNextBatch for it only when at least responseWindow      *)
(* minutes have passed since the stored batchSentAt of the request, and a  *)
(* run invoked by the scheduler dequeues a batch only when the batch       *)
(* before it was sent at least one response window earlier.                *)
C19_AdvanceAfterWindow ==
    [][\A s \in Scheds :
          /\ ( /\ sched[s].pc = "loop"
               /\ sched[s].pending # << >>
               /\ batch'[SchedRunner(s)].pc = "load" )
             => WindowElapsed(Head(sched[s].pending).id, now)
          /\ ( /\ batch[SchedRunner(s)].pc = "save"
               /\ batch'[SchedRunner(s)].pc = "send" )
             => WindowElapsed(batch[SchedRunner(s)].req, batch[SchedRunner(s)].t)]_vars

\* at time t the deadline of request id has passed and it is not full
ExpiredAt(id, t) ==
    /\ t > requests[id].requiredBy
    /\ requests[id].confirmedUnits < requests[id].quantity

(* C20 (as claimed, for the batches the scheduler advances): a scheduler   *)
(* cycle does not clear batchInProgress and invoke sendNextBatch for a     *)
(* request that has donors left in its queue and whose requiredBy has      *)
(* passed, at the time the cycle read, with confirmedUnits < quantity, and *)
(* a run the scheduler invoked dequeues no batch of a request whose        *)
(* requiredBy had passed when the run read the time.                       *)
C20_NoBatchAfterExpiry ==
    [][\A s \in Scheds :
          /\ ( /\ sched[s].pc = "loop"
               /\ sched[s].pending # << >>
               /\ batch'[SchedRunner(s)].pc = "load"
               /\ requests[Head(sched[s].pending).id].remainingDonorsQueue # << >> )
             => ~ExpiredAt(Head(sched[s].pending).id, sched[s].t)
          /\ ( /\ batch[SchedRunner(s)].pc = "save"
               /\ batch'[SchedRunner(s)].pc = "send" )
             => ~ExpiredAt(batch[SchedRunner(s)].req, batch[SchedRunner(s)].t)]_vars

\* request id is stored, active and unfilled, and its deadline has passed
Overdue(id) ==
    /\ Exists(id)
    /\ requests[id].status = "active"
    /\ requests[id].confirmedUnits < requests[id].quantity
    /\ now > requests[id].requiredBy

(* C21 (as claimed): a request that is active with confirmedUnits <        *)
(* quantity when its requiredBy has passed eventually has status expired,  *)
(* whether or not anybody reads it or responds to it.                      *)
C21_EventuallyExpired ==
    \A id \in RequestIds :
        Overdue(id) ~> (Exists(id) /\ requests[id].status = "expired")

\* the status the lifecycle rules give a request that is found as doc at time t
RuledStatus(doc, t) ==
    IF doc.status # "active" THEN doc.status
    ELSE IF doc.confirmedUnits >= doc.quantity THEN "fulfilled"
    ELSE IF t > doc.requiredBy THEN "expired"
    ELSE "active"

(* C22: the lifecycle evaluation of a read (part_000 revision) decides, on *)
(* the request it fetched: fulfilled if it is active with confirmedUnits   *)
(* >= quantity, also past requiredBy; otherwise expired if it is active    *)
(* and now > requiredBy; otherwise no change.  It saves only when it       *)
(* decided a change, what it saves is the decided status and nothing else, *)
(* and a request fetched as not active is answered without a save.         *)
C22_LifecycleOnRead ==
    [][\A g \in Reads :
          /\ ( /\ revision = "rev2"
               /\ read[g].pc \in {"idle", "done"}
               /\ read'[g] # read[g]
               /\ Exists(read'[g].req) )
             => LET doc == requests[read'[g].req] IN
                /\ requests' = requests
                /\ RuledStatus(doc, now) \in {"fulfilled", "expired"} \cup {doc.status}
                /\ IF RuledStatus(doc, now) # doc.status
                   THEN /\ doc.status = "active"
                        /\ read'[g].pc = "save"
                        /\ read'[g].status = RuledStatus(doc, now)
                   ELSE read'[g].pc = "done"
          /\ (read[g].pc = "save" /\ read'[g] # read[g])
             => /\ read[g].status \in {"fulfilled", "expired"}
                /\ requests' = [requests EXCEPT ![read[g].req].status = read[g].status]]_vars

\* a read has fetched a request that is active, full and past requiredBy,
\* and is about to save fulfilled
C22_Witness ==
    \E g \in Reads :
        /\ read[g].pc = "save"
        /\ read[g].status = "fulfilled"
        /\ read[g].isExpired
        /\ requests[read[g].req].status = "active"

(* C23: no step lowers confirmedUnits of a stored request; the saves that  *)
(* the scheduler, sendNextBatch and the lifecycle read issue from a copy   *)
(* fetched earlier leave confirmedUnits as it is stored.                   *)
C23_ConfirmedMonotonic ==
    [][\A id \in Docs :
          /\ requests'[id].confirmedUnits >= requests[id].confirmedUnits
          /\ ( \/ \E x \in Runners : batch[x].pc = "save" /\ batch'[x].pc # "save"
               \/ \E s \in Scheds : sched[s].pc = "loop" /\ sched'[s] # sched[s]
               \/ \E g \in Reads : read[g].pc = "save" /\ read'[g].pc # "save" )
             => requests'[id].confirmedUnits = requests[id].confirmedUnits]_vars

\* a sendNextBatch run is about to save a copy it fetched before a
\* confirmation was counted
C23_Witness ==
    \E x \in Runners :
        /\ batch[x].pc = "save"
        /\ batch[x].v = requests[batch[x].req].v
        /\ batch[x].units < requests[batch[x].req].confirmedUnits

\* the stored request is full, or recorded as fulfilled
Filled(doc) == doc.confirmedUnits >= doc.quantity \/ doc.status = "fulfilled"

(* C24 (as claimed): a sendNextBatch run dequeues a batch (its save of the *)
(* shortened queue succeeds, and the donors are then notified) only while  *)
(* the stored request has confirmedUnits < quantity and is not fulfilled,  *)
(* also when the filling confirmation came after the run fetched the       *)
(* request.                                                                *)
C24_NoBatchOnceFilled ==
    [][\A x \in Runners :
          ( /\ batch[x].pc = "save"
            /\ batch'[x].pc = "send"
            /\ batch[x].ids # << >> )
          => ~Filled(requests[batch[x].req])]_vars

\* the donors a response token of request id was created for
TokenHolders(id) == {p[2] : p \in {q \in BagToSet(tokens) : q[1] = id}}

(* C29 (as claimed): the confirmations counted for a request whose donors  *)
(* were sent response tokens never outnumber the (request, donor) pairs    *)
(* that were notified: each pair accounts for at most one increment of     *)
(* confirmedUnits.                                                         *)
C29_OneIncrementPerToken ==
    \A id \in Docs :
        TokenHolders(id) # {} => requests[id].confirmedUnits <= Cardinality(TokenHolders(id))

\* the place of donor id in the directory snapshot
DirectoryIndex(id) == CHOOSE i \in 1..Len(donors) : donors[i].id = id

\* donor a goes before donor b: by name, and by directory order for one name
GoesBefore(a, b) ==
    \/ DonorById(a).name < DonorById(b).name
    \/ /\ DonorById(a).name = DonorById(b).name
       /\ DirectoryIndex(a) < DirectoryIndex(b)

\* q holds the eligible donors for bloodGroup, each once, in that order
IsQueueOf(q, bloodGroup) ==
    /\ Range(q) = { donors[i].id : i \in { j \in 1..Len(donors) :
                                              IsMatchingDonor(donors[j], bloodGroup, today) } }
    /\ NoDuplicates(q)
    /\ \A i, j \in 1..Len(q) : i < j => GoesBefore(q[i], q[j])

(* C30: the queue stored at creation holds exactly the eligible donors of  *)
(* the directory, each once, ordered by name and, for one name, in         *)
(* directory order; the donors are dequeued in that order, so at any time  *)
(* the donors notified so far followed by those still queued are that      *)
(* sequence.                                                               *)
C30_QueueOrder ==
    /\ \A id \in Docs :
           IsQueueOf(requests[id].notifiedDonors \o requests[id].remainingDonorsQueue,
                     requests[id].bloodGroup)
    /\ \A id \in Docs :
           (requests[id].notifiedDonors = << >> /\ batch[InitRunner(id)].pc = "load")
               => requests[id].remainingDonorsQueue
                      = BuildQueue(donors, requests[id].bloodGroup, today)

\* two eligible donors of one name are queued in directory order behind a
\* donor of a lower name who stands later in the directory, and the first
\* batch has been dequeued
C30_Witness ==
    \E id \in Docs :
        /\ requests[id].notifiedDonors # << >>
        /\ \E i, j \in 1..Len(requests[id].remainingDonorsQueue) :
               /\ i < j
               /\ DonorById(requests[id].remainingDonorsQueue[i]).name
                      = DonorById(requests[id].remainingDonorsQueue[j]).name
        /\ DirectoryIndex(requests[id].notifiedDonors[1])
               > DirectoryIndex(requests[id].remainingDonorsQueue[1])

\* the outcomes recorded for donor d in run x
OutcomesOf(x, d) == {p[2] : p \in {q \in batch[x].outcome : q[1] = d}}

(* C25: within one batch, the end of one donor's processing, failed or     *)
(* not, leaves every other donor of the batch still to be processed with   *)
(* what it has reached so far; a donor with a phone number whose own       *)
(* processing did not fail is handed to the send capability; and the run   *)
(* returns only when every donor of the batch has exactly one outcome (or, *)
(* when the lookup of the donors itself failed, before any was started).   *)
C25_DonorIsolation ==
    [][\A x \in Runners :
          /\ \A d \in batch[x].todo :
                ( /\ batch[x].pc = "send"
                  /\ batch'[x].pc = "send"
                  /\ d \notin batch'[x].todo )
                => /\ batch'[x].todo = batch[x].todo \ {d}
                   /\ batch'[x].tokened = batch[x].tokened \ {d}
                   /\ OutcomesOf(x, d)' # {}
                   /\ \A e \in batch[x].todo \ {d} : OutcomesOf(x, e)' = OutcomesOf(x, e)
                   /\ (OutcomesOf(x, d)' \cap {"sent", "sendFailed"} # {})
                         = (CopiesIn(<<batch[x].req, d>>, sms') = CopiesIn(<<batch[x].req, d>>, sms) + 1)
          /\ ( /\ batch[x].pc = "send"
               /\ batch'[x].pc # "send" )
             => /\ batch'[x].pc = "done"
                /\ \/ \A d \in FoundDonors(batch[x].ids) : Cardinality(OutcomesOf(x, d)) = 1
                   \/ batch[x].outcome = {} /\ batch[x].tokened = {}]_vars

\* a batch of three donors has been processed to the end: the token of one
\* could not be created, another one was handed to the send capability, the
\* third has no phone number
C25_Witness ==
    \E x \in Runners : \E d1, d2, d3 \in FoundDonors(batch[x].ids) :
        /\ batch[x].pc = "send"
        /\ batch[x].todo = {}
        /\ OutcomesOf(x, d1) = {"tokenFailed"}
        /\ OutcomesOf(x, d2) = {"sent"}
        /\ OutcomesOf(x, d3) = {"noPhone"}
        /\ CopiesIn(<<batch[x].req, d2>>, sms) = 1

(* C26: createBloodRequest stores the request with its queue and answers   *)
(* while the first sendNextBatch run has not read anything yet and nothing *)
(* has been sent; and a run of sendNextBatch, whatever fails inside it,    *)
(* ends by returning: the stored requests are still there, and the cycle   *)
(* that awaited the run goes on with its list.                             *)
C26_CreationIndependent ==
    [][/\ Len(requests') >= Len(requests)
       /\ Len(requests') > Len(requests)
             => LET id == Len(requests') IN
                /\ requests'[id].remainingDonorsQueue
                       = BuildQueue(donors, requests'[id].bloodGroup, today)
                /\ requests'[id].notifiedDonors = << >>
                /\ batch'[InitRunner(id)].pc = "load"
                /\ sms' = sms
                /\ tokens' = tokens
       /\ \A x \in Runners :
             ( /\ batch[x].pc \in {"load", "save", "send"}
               /\ batch'[x].pc \notin {"load", "save", "send"} )
             => /\ batch'[x].pc = "done"
                /\ queuedAtCreate' = queuedAtCreate
                /\ \A s \in Scheds :
                      SchedRunner(s) = x => (sched'[s] = sched[s] /\ sched[s].res = "none")]_vars

\* a request createBloodRequest stored is there with its whole queue, and its
\* first run has ended in its catch without dequeuing anything
C26_Witness ==
    \E id \in Docs :
        /\ requests[id].batchSize = BatchSizeAtCreate
        /\ requests[id].status = InProgressStatus(revision)
        /\ requests[id].remainingDonorsQueue # << >>
        /\ requests[id].notifiedDonors = << >>
        /\ queuedAtCreate[id] = Len(requests[id].remainingDonorsQueue)
        /\ batch[InitRunner(id)].pc = "done"

\* the ids of the requests a cycle holds in its list
PendingIds(cycle) == {cycle.pending[i].id : i \in 1..Len(cycle.pending)}

(* C27 (as claimed): a scheduler cycle that finds the store unavailable    *)
(* changes nothing; a cycle in which a query or save fails ends with the   *)
(* error logged, the scheduler idle and the requests as they were; and the *)
(* cycle that runs after either of them selects every request that is due. *)
C27_CycleFaultsContained ==
    [][\A s \in Scheds :
          /\ (sched'[s] # sched[s] /\ sched'[s].res = "notReady")
             => /\ sched'[s].pc = "idle"
                /\ requests' = requests
                /\ batch' = batch
                /\ sms' = sms
                /\ tokens' = tokens
          /\ (sched'[s] # sched[s] /\ sched'[s].res = "error")
             => /\ sched'[s].pc = "idle"
                /\ requests' = requests
          /\ ( /\ sched[s].res \in {"notReady", "error"}
               /\ sched'[s] # sched[s]
               /\ sched'[s].res = "none" )
             => \A id \in Docs : Due(id) => id \in PendingIds(sched'[s])]_vars

(* C28: every message handed to the send capability for a donor of a       *)
(* request has a response token of that request and donor, created before  *)
(* it; a donor whose token could not be created gets no message, and a     *)
(* donor is handed to the send capability only while the token created for *)
(* it in this run is there.                                                *)
C28_TokenBeforeMessage ==
    /\ \A p \in BagToSet(sms) : CopiesIn(p, sms) <= CopiesIn(p, tokens)
    /\ \A x \in Runners : \A d \in FoundDonors(batch[x].ids) :
          /\ "tokenFailed" \in OutcomesOf(x, d) => CopiesIn(<<batch[x].req, d>>, sms) = 0
          /\ d \in batch[x].tokened => CopiesIn(<<batch[x].req, d>>, tokens) > 0

\* the token of one donor of the batch could not be created and the donor has
\* got no message, while a message went to another donor of the batch
C28_Witness ==
    \E x \in Runners : \E d, e \in FoundDonors(batch[x].ids) :
        /\ "tokenFailed" \in OutcomesOf(x, d)
        /\ CopiesIn(<<batch[x].req, d>>, tokens) = 0
        /\ CopiesIn(<<batch[x].req, d>>, sms) = 0
        /\ CopiesIn(<<batch[x].req, e>>, tokens) = 1
        /\ CopiesIn(<<batch[x].req, e>>, sms) = 1

(* C34: in every reachable state a stored request with batchInProgress     *)
(* true has its batchSentAt set, and every request a scheduler cycle holds *)
(* in its list has a send time, so that the cycle skips none for lacking   *)
(* one.                                                                    *)
C34_InProgressHasSentAt ==
    /\ \A id \in Docs : requests[id].batchInProgress => requests[id].batchSentAt # NoDate
    /\ \A s \in Scheds : \A i \in 1..Len(sched[s].pending) :
          sched[s].pending[i].batchSentAt # NoDate

\* a cycle holds a request whose batch is in progress, with its send time
C34_Witness ==
    \E s \in Scheds : \E id \in Docs :
        /\ sched[s].pc = "loop"
        /\ id \in PendingIds(sched[s])
        /\ requests[id].batchInProgress
        /\ requests[id].batchSentAt # NoDate

(* C35: in every reachable state a stored request with status fulfilled    *)
(* has confirmedUnits >= quantity.                                         *)
C35_FulfilledIsFull ==
    \A id \in Docs :
        requests[id].status = "fulfilled" => requests[id].confirmedUnits >= requests[id].quantity

\* confirmDonation has stored fulfilled for the request its increment filled
C35_Witness ==
    \E c \in Calls :
        /\ confirm[c].pc = "respond"
        /\ confirm[c].units = MaxQuantity
        /\ confirm[c].quantity = MaxQuantity
        /\ requests[confirm[c].req].status = "fulfilled"
        /\ requests[confirm[c].req].confirmedUnits = MaxQuantity

(* C36 (as claimed): in every reachable state a stored request with status *)
(* expired has confirmedUnits < quantity.                                  *)
C36_ExpiredIsUnfilled ==
    \A id \in Docs :
        requests[id].status = "expired" => requests[id].confirmedUnits < requests[id].quantity

\* the fields of a stored request confirmDonation has no business with
BatchFields(doc) ==
    <<doc.remainingDonorsQueue, doc.notifiedDonors, doc.batchSentAt, doc.batchInProgress,
      doc.v, doc.bloodGroup, doc.quantity, doc.requiredBy, doc.batchSize, doc.responseWindow>>

DispatchStep == batch' # batch \/ sched' # sched

(* C31: a request for which createBloodRequest found no eligible donor is  *)
(* stored in progress with confirmedUnits 0, an empty queue, an empty      *)
(* notifiedDonors, no send time and batchInProgress false; its queue,      *)
(* notifiedDonors, send time and batchInProgress stay so, no token is      *)
(* created and no message is sent for it, and no step of the first         *)
(* dispatch or of a scheduler cycle changes anything of it.                *)
C31_EmptyQueueIdle ==
    [][\A id \in 1..Len(requests') :
          queuedAtCreate'[id] = 0
          => /\ requests'[id].remainingDonorsQueue = << >>
             /\ requests'[id].notifiedDonors = << >>
             /\ requests'[id].batchSentAt = NoDate
             /\ ~requests'[id].batchInProgress
             /\ \A p \in BagToSet(sms') \cup BagToSet(tokens') : p[1] # id
             /\ \A s \in Scheds : id \notin PendingIds(sched'[s])
             /\ IF id \in Docs
                THEN DispatchStep => requests'[id] = requests[id]
                ELSE /\ requests'[id].status = InProgressStatus(revision)
                     /\ requests'[id].confirmedUnits = 0]_vars

\* a request stored with an empty queue: its first run has returned, its
\* deadline has passed and it is as it was created
C31_Witness ==
    \E id \in Docs :
        /\ queuedAtCreate[id] = 0
        /\ batch[InitRunner(id)].pc = "done"
        /\ now > requests[id].requiredBy
        /\ requests[id].status = InProgressStatus(revision)
        /\ requests[id].confirmedUnits = 0
        /\ \A s \in Scheds : sched[s] = IdleSched

\* request id was dispatched to the end of its queue and a scheduler cycle
\* has closed its last batch
Exhausted(id) ==
    /\ requests[id].remainingDonorsQueue = << >>
    /\ requests[id].notifiedDonors # << >>
    /\ ~requests[id].batchInProgress

(* C38: a scheduler cycle that advances a request whose stored queue is    *)
(* empty leaves it with batchInProgress false, and the sendNextBatch run   *)
(* it invokes returns without a token or a message; from then on, in every *)
(* step, batchInProgress stays false, the queue, notifiedDonors and        *)
(* batchSentAt of the request stay as they are, and no scheduler cycle     *)
(* that starts selects it.                                                 *)
C38_ExhaustedStaysClosed ==
    [][\A id \in Docs :
          /\ \A s \in Scheds :
                /\ ( /\ sched[s].pc = "loop"
                     /\ sched[s].pending # << >>
                     /\ Head(sched[s].pending).id = id
                     /\ batch'[SchedRunner(s)].pc = "load"
                     /\ requests[id].remainingDonorsQueue = << >> )
                   => /\ ~requests'[id].batchInProgress
                      /\ sms' = sms
                      /\ tokens' = tokens
                /\ ( /\ batch[SchedRunner(s)].pc = "load"
                     /\ batch[SchedRunner(s)].req = id
                     /\ batch'[SchedRunner(s)] # batch[SchedRunner(s)]
                     /\ Exhausted(id) )
                   => /\ batch'[SchedRunner(s)].pc \in {"done", "idle"}
                      /\ sms' = sms
                      /\ tokens' = tokens
          /\ Exhausted(id)
             => /\ Exhausted(id)'
                /\ requests'[id].batchSentAt = requests[id].batchSentAt
                /\ requests'[id].notifiedDonors = requests[id].notifiedDonors
                /\ requests'[id].v = requests[id].v
                /\ \A s \in Scheds :
                      (sched[s].pc = "idle" /\ sched'[s].pc = "loop")
                      => id \notin PendingIds(sched'[s])]_vars

\* the run a cycle invoked for a request with an empty queue has returned,
\* the cycle goes on, and the request is closed with its donors notified
C38_Witness ==
    \E id \in Docs : \E s \in Scheds :
        /\ Exhausted(id)
        /\ sched[s].pc = "loop"
        /\ batch[SchedRunner(s)].pc = "done"
        /\ requests[id].status = "pending"
        /\ BagCardinality(sms) = Len(requests[id].notifiedDonors)

\* donor d of request id is held by a run that has dequeued d and has not
\* returned
InHand(id, d) ==
    \E x \in Runners :
        batch[x].pc = "send" /\ batch[x].req = id /\ d \in FoundDonors(batch[x].ids)

(* C39: a donor who was dequeued stays in notifiedDonors and does not come *)
(* back into remainingDonorsQueue, whatever the outcome of the donor's     *)
(* processing (no phone number, token not created, message not built, send *)
(* failed); the end of the processing writes nothing to the request; and   *)
(* once the run that dequeued the donor has returned, no token is created  *)
(* and no message is sent for that donor of that request again.            *)
C39_FailedStayNotified ==
    [][\A id \in Docs :
          /\ \A x \in Runners : \A d \in FoundDonors(batch[x].ids) :
                (batch[x].pc = "send" /\ batch[x].req = id /\ OutcomesOf(x, d)' # OutcomesOf(x, d))
                => requests'[id] = requests[id]
          /\ \A d \in Range(requests[id].notifiedDonors) :
                /\ d \in Range(requests'[id].notifiedDonors)
                /\ d \notin Range(requests'[id].remainingDonorsQueue)
                /\ ~InHand(id, d)
                   => /\ ~InHand(id, d)'
                      /\ CopiesIn(<<id, d>>, sms') = CopiesIn(<<id, d>>, sms)
                      /\ CopiesIn(<<id, d>>, tokens') = CopiesIn(<<id, d>>, tokens)]_vars

\* the first donor of a request was dequeued and got no message although the
\* donor has a phone number; the next batch went to the next donor
C39_Witness ==
    \E id \in Docs :
        /\ Len(requests[id].notifiedDonors) = 2
        /\ DonorById(requests[id].notifiedDonors[1]).phone
        /\ ~InHand(id, requests[id].notifiedDonors[1])
        /\ CopiesIn(<<id, requests[id].notifiedDonors[1]>>, sms) = 0
        /\ CopiesIn(<<id, requests[id].notifiedDonors[2]>>, sms) = 1
        /\ requests[id].batchSize = BatchSizeAtCreate

C33_RegistryIsConnected ==
    /\ {clients[i].res : i \in 1..Len(clients)} = stream.open
    /\ Len(clients) = Cardinality(stream.open)

====
